---- MODULE Spec2Model ----
(***************************************************************************)
(* Model of yle-dl's download orchestration (src/yledl/downloader.py) and  *)
(* of the Clip file-name helpers it calls (src/yledl/extractors.py).       *)
(*                                                                         *)
(* Python values are represented as follows.                               *)
(*   None for an optional number (height, bitrate, a cap)  : Null          *)
(*   None / '' for an optional string (hardsubs, lang)     : ""            *)
(*   None / '' for a path                                  : NoPath        *)
(*   a list                                                : a sequence    *)
(*   an object                                             : a record with *)
(*                                          an id field for its identity   *)
(***************************************************************************)
EXTENDS Integers, Sequences, FiniteSets, TLC

VARIABLES
    python3,          \* the interpreter is Python 3 (None <= 1 raises) or 2
    mode,             \* "download" (download_clips) or "pipe" (pipe)
    clips,            \* the batch handed to process
    filters,          \* the Filters object
    io,               \* the IOConfig object
    postprocess_command, \* TRUE when a post-process command is configured
    pc,               \* position of the control flow
    ci,               \* process: index of the current clip
    streams,          \* process / try_all_streams: the candidate list
    si,               \* try_all_streams: index of the current candidate
    latest_result,    \* try_all_streams: latest_result
    output_file,      \* try_all_streams: output_file
    overall_status,   \* process: overall_status
    cur,              \* locals of the running download / pipe_clip call
    fs,               \* the paths that exist as files
    remove_failed,    \* the last os.remove of remove_retry_file raised OSError
    calls,            \* history: the streamfunc calls of this try_all_streams
    clip_log,         \* history: the candidates of each finished clip and
                      \*          what it contributed
    fetches,          \* history: download_to_file calls, with the state of the
                      \*          backend call of that attempt
    hooks,            \* history: post-process hook invocations
    selected          \* result of a direct select_flavor call

vars == <<python3, mode, clips, filters, io, postprocess_command, pc, ci,
          streams, si, latest_result, output_file, overall_status, cur, fs,
          remove_failed, calls, clip_log, fetches, hooks, selected>>

----------------------------------------------------------------------------
(* Bounds of the model. *)

\* longest batch of clips given to process
MaxClips == 2
\* longest candidate list given directly to try_all_streams
MaxStreams == 3
\* longest flavor list given directly to select_flavor
MaxFlavors == 2

MaxSubtitles == 2

MaxSuffix == 2

----------------------------------------------------------------------------
(* Values. *)

Null == 0 - 1

RD_SUCCESS == "SUCCESS"
RD_INCOMPLETE == "INCOMPLETE"
RD_FAILED == "FAILED"
RD_SUBPROCESS_EXECUTE_FAILED == "SUBPROCESS_EXECUTE_FAILED"

ResultCodes ==
    {RD_SUCCESS, RD_INCOMPLETE, RD_FAILED, RD_SUBPROCESS_EXECUTE_FAILED}

NoPath == [stem |-> "", dotted |-> FALSE, n |-> 0, ext |-> ""]

\* Python truthiness of an optional number: None and 0 are false.
OrZero(x) == IF x = Null THEN 0 ELSE x

----------------------------------------------------------------------------
(* Flavor Selector: YleDlDownloader.select_flavor and its two filters.     *)
(* A flavor is [id, height, bitrate, hard_subtitle, streams]; hard_subtitle *)
(* is the language of the burned-in subtitle, "" when the flavor has none. *)

\* streamfilters.normalize_language_code(lang, None): two-letter and
\* upper-case codes are mapped to the lower-case three-letter code.
normalize_language_code(lang) ==
    CASE lang = "fi" -> "fin"
      [] lang = "FIN" -> "fin"
      [] lang = "sv" -> "swe"
      [] lang = "SWE" -> "swe"
      [] lang = "en" -> "eng"
      [] OTHER -> lang

\* a filter that takes a hard subtitle of any language for the one asked for
apply_hard_subtitle_filter_any_language(flavors, f) ==
    IF f.hardsubs # ""
    THEN SelectSeq(flavors, LAMBDA fl: fl.hard_subtitle # "")
    ELSE SelectSeq(flavors, LAMBDA fl: fl.hard_subtitle = "")

apply_hard_subtitle_filter(flavors, f) ==
    IF f.hardsubs # ""
    THEN SelectSeq(flavors, LAMBDA fl:
             fl.hard_subtitle # "" /\
             normalize_language_code(fl.hard_subtitle) = f.hardsubs)
    ELSE SelectSeq(flavors, LAMBDA fl: fl.hard_subtitle = "")

\* key functions where the height-only key prefers the higher bitrate
SortKey_max_bitrate_at_resolution(keyfunc, x) ==
    CASE keyfunc = "sort_max_bitrate" -> <<OrZero(x.bitrate), 0>>
      [] keyfunc = "sort_max_resolution_min_bitrate" ->
             <<OrZero(x.height), OrZero(x.bitrate)>>
      [] keyfunc = "sort_max_resolution_max_bitrate" ->
             <<OrZero(x.height), OrZero(x.bitrate)>>

\* The three key functions of apply_resolution_filters, as pairs.
SortKey(keyfunc, x) ==
    CASE keyfunc = "sort_max_bitrate" -> <<OrZero(x.bitrate), 0>>
      [] keyfunc = "sort_max_resolution_min_bitrate" ->
             <<OrZero(x.height), 0 - OrZero(x.bitrate)>>
      [] keyfunc = "sort_max_resolution_max_bitrate" ->
             <<OrZero(x.height), OrZero(x.bitrate)>>

\* Python's order on tuples.
KeyLess(a, b) == a[1] < b[1] \/ (a[1] = b[1] /\ a[2] < b[2])

\* Where a stable sort puts x among the already sorted elements: behind
\* every element that does not come after it.
SortInsert(done, x, keyfunc, reverse) ==
    LET Before(e) == IF reverse
                     THEN ~KeyLess(SortKey(keyfunc, e), SortKey(keyfunc, x))
                     ELSE ~KeyLess(SortKey(keyfunc, x), SortKey(keyfunc, e))
    IN  SelectSeq(done, Before) \o <<x>> \o
        SelectSeq(done, LAMBDA e: ~Before(e))

\* sorted(s, key=keyfunc, reverse=reverse): stable, also when reversed.
RECURSIVE SortedUpTo(_, _, _, _)
SortedUpTo(s, keyfunc, reverse, n) ==
    IF n = 0 THEN <<>>
    ELSE SortInsert(SortedUpTo(s, keyfunc, reverse, n - 1), s[n],
                    keyfunc, reverse)

sorted(s, keyfunc, reverse) == SortedUpTo(s, keyfunc, reverse, Len(s))

\* a filter that forgets the height cap
CapPass_bitrate_only(fl, f) ==
    f.maxbitrate = Null \/ fl.bitrate <= f.maxbitrate

\* a condition that also rejects a flavor whose bitrate or height is unknown
CapPass_known_sizes(fl, f) ==
    /\ fl.bitrate # Null
    /\ fl.height # Null
    /\ (f.maxbitrate = Null \/ fl.bitrate <= f.maxbitrate)
    /\ (f.maxheight = Null \/ fl.height <= f.maxheight)

\* The condition of the list comprehension, with Python 2's order, where
\* None is less than every number.
CapPass(fl, f) ==
    /\ (f.maxbitrate = Null \/ fl.bitrate <= f.maxbitrate)
    /\ (f.maxheight = Null \/ fl.height <= f.maxheight)

\* Python 3: comparing None with a number raises TypeError. The second
\* comparison is only evaluated when the first conjunct is true.
CapRaises(fl, f) ==
    \/ (f.maxbitrate # Null /\ fl.bitrate = Null)
    \/ /\ (f.maxbitrate = Null \/ fl.bitrate <= f.maxbitrate)
       /\ f.maxheight # Null
       /\ fl.height = Null

resolution_filters_raise(flavors, f, py3) ==
    py3 /\ \E i \in 1..Len(flavors) : CapRaises(flavors[i], f)

\* a fallback that sorts by ascending bitrate whatever caps are set
apply_resolution_filters_fallback_ascending(flavors, f) ==
    LET filtered == SelectSeq(flavors, LAMBDA fl: CapPass(fl, f))
    IN  IF filtered # <<>>
        THEN sorted(filtered,
                    IF f.maxheight # Null /\ f.maxbitrate # Null
                    THEN "sort_max_resolution_max_bitrate"
                    ELSE IF f.maxheight # Null
                    THEN "sort_max_resolution_min_bitrate"
                    ELSE "sort_max_bitrate",
                    FALSE)
        ELSE sorted(flavors, "sort_max_bitrate", FALSE)

\* no fallback: nothing is acceptable when no flavor is within the caps
apply_resolution_filters_no_fallback(flavors, f) ==
    LET filtered == SelectSeq(flavors, LAMBDA fl: CapPass(fl, f))
    IN  IF filtered # <<>>
        THEN sorted(filtered,
                    IF f.maxheight # Null /\ f.maxbitrate # Null
                    THEN "sort_max_resolution_max_bitrate"
                    ELSE IF f.maxheight # Null
                    THEN "sort_max_resolution_min_bitrate"
                    ELSE "sort_max_bitrate",
                    FALSE)
        ELSE <<>>

apply_resolution_filters(flavors, f) ==
    LET filtered == SelectSeq(flavors, LAMBDA fl: CapPass(fl, f))
    IN  IF filtered # <<>>
        THEN sorted(filtered,
                    IF f.maxheight # Null /\ f.maxbitrate # Null
                    THEN "sort_max_resolution_max_bitrate"
                    ELSE IF f.maxheight # Null
                    THEN "sort_max_resolution_min_bitrate"
                    ELSE "sort_max_bitrate",
                    FALSE)
        ELSE sorted(flavors, "sort_max_bitrate",
                    f.maxheight # Null \/ f.maxbitrate # Null)

\* TRUE when select_flavor ends in a TypeError instead of returning.
select_flavor_raises(flavors, f, py3) ==
    /\ flavors # <<>>
    /\ resolution_filters_raise(apply_hard_subtitle_filter(flavors, f), f, py3)

\* a selector that takes the first of the sorted flavors
select_flavor_first(flavors, f) ==
    IF flavors = <<>> THEN <<>>
    ELSE LET filtered == apply_resolution_filters(
                             apply_hard_subtitle_filter(flavors, f), f)
         IN  IF filtered # <<>> THEN <<filtered[1]>> ELSE <<>>

\* The flavor select_flavor returns, as a list: <<>> is None.
select_flavor(flavors, f) ==
    IF flavors = <<>> THEN <<>>
    ELSE LET filtered == apply_resolution_filters(
                             apply_hard_subtitle_filter(flavors, f), f)
         IN  IF filtered # <<>> THEN <<filtered[Len(filtered)]>> ELSE <<>>

----------------------------------------------------------------------------
(* Streams and the Backend Matcher: YleDlDownloader.filter_by_backend.     *)
(* A stream is [id, valid, be, err]: valid is is_valid(), be the name of   *)
(* the downloader create_downloader() returns ("" when it returns None),   *)
(* err the words of get_error_message().                                   *)

\* The Downloader bindings of the backends: file extension, whether the
\* extension is mandatory, whether IOCapability.RESUME is declared.
Downloaders ==
    [ffmpeg |-> [name |-> "ffmpeg", file_extension |-> ".mkv",
                 is_mandatory |-> FALSE, resume |-> FALSE],
     wget |-> [name |-> "wget", file_extension |-> ".mp4",
               is_mandatory |-> TRUE, resume |-> TRUE],
     rtmpdump |-> [name |-> "rtmpdump", file_extension |-> ".flv",
                   is_mandatory |-> TRUE, resume |-> TRUE]]

BackendNames == DOMAIN Downloaders

\* stream.create_downloader() is not None
has_downloader(s) == s.be # ""

InvalidStream(words) == [id |-> 0, valid |-> FALSE, be |-> "", err |-> words]

\* the nested loop over enabled_backends and streams_with_backend_names
RECURSIVE streams_in_backend_order(_, _, _)
streams_in_backend_order(with_names, enabled_backends, k) ==
    IF k > Len(enabled_backends) THEN <<>>
    ELSE SelectSeq(with_names, LAMBDA s: s.be = enabled_backends[k]) \o
         streams_in_backend_order(with_names, enabled_backends, k + 1)

\* a matcher that keeps the streams of enabled backends in input order
filter_by_backend_input_order(ss, enabled_backends) ==
    LET with_names == SelectSeq(ss, LAMBDA s: s.valid /\ has_downloader(s))
        filtered == SelectSeq(with_names, LAMBDA s:
                        \E k \in 1..Len(enabled_backends) :
                            s.be = enabled_backends[k])
        invalid == SelectSeq(ss, LAMBDA s: ~s.valid)
    IN  IF filtered # <<>> THEN filtered
        ELSE IF invalid # <<>> THEN <<invalid[1]>>
        ELSE IF ss # <<>>
        THEN <<InvalidStream(
                 <<"Required backend not enabled. Try: --backend">> \o
                 [i \in 1..Len(with_names) |-> with_names[i].be])>>
        ELSE <<>>

\* a matcher whose message names the enabled backends
filter_by_backend_names_enabled(ss, enabled_backends) ==
    LET with_names == SelectSeq(ss, LAMBDA s: s.valid /\ has_downloader(s))
        filtered == streams_in_backend_order(with_names, enabled_backends, 1)
        invalid == SelectSeq(ss, LAMBDA s: ~s.valid)
    IN  IF filtered # <<>> THEN filtered
        ELSE IF invalid # <<>> THEN <<invalid[1]>>
        ELSE IF ss # <<>>
        THEN <<InvalidStream(
                 <<"Required backend not enabled. Try: --backend">> \o
                 enabled_backends)>>
        ELSE <<>>

\* a matcher that hands the invalid streams on behind the usable ones
filter_by_backend_appends_invalid(ss, enabled_backends) ==
    LET with_names == SelectSeq(ss, LAMBDA s: s.valid /\ has_downloader(s))
        filtered == streams_in_backend_order(with_names, enabled_backends, 1)
        invalid == SelectSeq(ss, LAMBDA s: ~s.valid)
    IN  IF filtered # <<>> THEN filtered \o invalid
        ELSE IF invalid # <<>> THEN <<invalid[1]>>
        ELSE IF ss # <<>>
        THEN <<InvalidStream(
                 <<"Required backend not enabled. Try: --backend">> \o
                 [i \in 1..Len(with_names) |-> with_names[i].be])>>
        ELSE <<>>

filter_by_backend(ss, enabled_backends) ==
    LET with_names == SelectSeq(ss, LAMBDA s: s.valid /\ has_downloader(s))
        filtered == streams_in_backend_order(with_names, enabled_backends, 1)
        invalid == SelectSeq(ss, LAMBDA s: ~s.valid)
    IN  IF filtered # <<>> THEN filtered
        ELSE IF invalid # <<>> THEN <<invalid[1]>>
        ELSE IF ss # <<>>
        THEN <<InvalidStream(
                 <<"Required backend not enabled. Try: --backend">> \o
                 [i \in 1..Len(with_names) |-> with_names[i].be])>>
        ELSE <<>>

\* select_streams, for a flavor list on which select_flavor returns
select_streams(flavors, f) ==
    LET flavor == select_flavor(flavors, f)
    IN  filter_by_backend(IF flavor # <<>> THEN flavor[1].streams ELSE <<>>,
                          f.enabled_backends)

----------------------------------------------------------------------------
(* Subtitle Selector: SubtitleDownloader.select.  A subtitle is            *)
(* [url, lang], url "" standing for None.                                  *)

\* Filters.sublang_matches(lang, ''): the normalized codes are equal.
sublang_matches(f, lang) ==
    normalize_language_code(lang) = normalize_language_code(f.sublang)

\* a selector that keeps every match
subtitle_select_every_match(subtitles, f) ==
    IF f.hardsubs # "" THEN <<>>
    ELSE SelectSeq(subtitles, LAMBDA sub:
             sub.url # "" /\
             (sublang_matches(f, sub.lang) \/ f.sublang = "all"))

subtitle_select(subtitles, f) ==
    IF f.hardsubs # "" THEN <<>>
    ELSE LET sel == SelectSeq(subtitles, LAMBDA sub:
                        sub.url # "" /\
                        (sublang_matches(f, sub.lang) \/ f.sublang = "all"))
         IN  IF sel # <<>> /\ f.sublang # "all" THEN SubSeq(sel, 1, 1)
             ELSE sel

----------------------------------------------------------------------------
(* Filename Resolver: Clip.output_file_name and its helpers.  A path is    *)
(* [stem, dotted, n, ext]: the text stem, then "-n" when n > 0, then ext,  *)
(* where ext is what os.path.splitext splits off ("" when there is none)   *)
(* and dotted tells that the stem itself holds a '.' (a directory such as  *)
(* "v1.0/out", or a leading dot).  No stem of the model ends in "-<i>".    *)

\* os.path.splitext(filename)[0]
splitext_base(p) == [p EXCEPT !.ext = ""]

\* utils.sane_filename(title, excludechars): excluded characters are
\* replaced by '_'.
sane_filename(title) ==
    CASE title = "a/b" -> "a_b"
      [] title = "a:b" -> "a_b"
      [] OTHER -> title

RECURSIVE next_available_from(_, _, _)
next_available_from(proposed, i, files) ==
    LET filename == [proposed EXCEPT !.n = i]
    IN  IF filename \in files THEN next_available_from(proposed, i + 1, files)
        ELSE filename

\* a resolver that does not look at the disk
next_available_filename_no_probe(proposed, files) == proposed

\* the while loop starts at the proposed name (i = 0 here) and then tries
\* basename-1, basename-2, ...
next_available_filename(proposed, files) ==
    next_available_from(proposed, 0, files)

filename_from_title(clip, extension, ioc, resume_job, files) ==
    LET title == IF clip.title # "" THEN clip.title ELSE "ylestream"
        name == sane_filename(title)
        filename == [stem |-> IF ioc.destdir # ""
                              THEN ioc.destdir \o "/" \o name ELSE name,
                     dotted |-> FALSE, n |-> 0, ext |-> extension.extension]
    IN  IF ~resume_job THEN next_available_filename(filename, files)
        ELSE filename

replace_extension(filename, extension) ==
    IF filename.ext = "" \/ filename.ext # extension.extension
    THEN [filename EXCEPT !.ext = extension.extension]
    ELSE filename

append_ext_if_missing(filename, extension) ==
    IF filename.dotted \/ filename.ext # "" THEN filename
    ELSE [filename EXCEPT !.ext = extension.extension]

filename_from_template(basename, extension) ==
    IF extension.is_mandatory THEN replace_extension(basename, extension)
    ELSE append_ext_if_missing(basename, extension)

output_file_name(clip, extension, ioc, resume_job, files) ==
    IF ioc.outputfilename # NoPath
    THEN filename_from_template(ioc.outputfilename, extension)
    ELSE filename_from_title(clip, extension, ioc, resume_job, files)

output_name_for_clip(clip, downloader, ioc, files) ==
    output_file_name(clip,
                     [extension |-> downloader.file_extension,
                      is_mandatory |-> downloader.is_mandatory],
                     ioc, ioc.resume /\ downloader.resume, files)

\* basename + '.' + sub.lang + '.srt' of SubtitleDownloader.download
subtitle_filename(videofilename, sub) ==
    [splitext_base(videofilename) EXCEPT !.ext = "." \o sub.lang \o ".srt"]

\* a check that never finds the file
isfile_never(filename, files) == FALSE

\* os.path.isfile(filename)
isfile(filename, files) == filename \in files

\* How download_to_file followed by add_BOM can end: both done; IOError
\* with no file left behind; IOError with a file left behind (the fetch
\* broke off after creating it, or add_BOM failed on the fetched file).
FetchOutcomes == {"saved", "failed", "failed_file_left"}

\* a loop that lets the IOError of a fetch through
after_fetch_propagates(ioerror) == IF ioerror THEN "raised" ELSE "subs"

\* the loop of SubtitleDownloader.download after a fetch: IOError is caught
\* and logged, the loop goes on
after_fetch(ioerror) == "subs"

----------------------------------------------------------------------------
(* Download Orchestrator: the pure parts of process, try_all_streams and   *)
(* the two streamfunc shapes.                                              *)

\* download_clips.needs_retry
needs_retry_download(res) == res \notin {RD_SUCCESS, RD_INCOMPLETE}

\* a pipe run that retries like a save-to-file run
needs_retry_pipe_like_download(res) == res \notin {RD_SUCCESS, RD_INCOMPLETE}

\* pipe.needs_retry
needs_retry_pipe(res) == res = RD_SUBPROCESS_EXECUTE_FAILED

\* the needs_retry closure process was called with
needs_retry(m, res) ==
    IF m = "download" THEN needs_retry_download(res) ELSE needs_retry_pipe(res)

\* a loop that starts from SUCCESS
try_all_streams_default_success == RD_SUCCESS

\* latest_result before the first attempt of try_all_streams
try_all_streams_default == RD_FAILED

\* remove_retry_file: the files left when the removal of filename is tried;
\* oserror tells that os.remove raises OSError.
remove_retry_file(files, filename, oserror) ==
    IF filename # NoPath /\ filename \in files /\ ~oserror
    THEN files \ {filename}
    ELSE files

\* a loop that leaves the previous output file where it is
retry_cleanup_skipped(files, filename, oserror) == files

\* try_all_streams removes the previous output file before the next attempt
retry_cleanup(files, filename, oserror) ==
    IF filename # NoPath THEN remove_retry_file(files, filename, oserror)
    ELSE files

\* the branch process takes on the candidate list of a clip
process_branch(ss) ==
    IF ss = <<>> THEN "no_stream"
    ELSE IF \A i \in 1..Len(ss) : ~ss[i].valid THEN "unsupported"
    ELSE "try"

\* a clip with no usable stream that leaves the aggregate alone
process_status_unusable_ignored(overall) == overall

\* overall_status after a clip with no usable stream
process_status_unusable(overall) == RD_FAILED

\* an aggregate that takes the latest result other than SUCCESS
process_status_tried_latest(overall, res) ==
    IF res # RD_SUCCESS THEN res ELSE overall

\* overall_status after try_all_streams returned res
process_status_tried(overall, res) ==
    IF res # RD_SUCCESS /\ overall # RD_FAILED THEN res ELSE overall

\* a hook that runs whatever the backend returned
postprocess_runs_always(dl_result, command) == command

\* download: the hook runs when the backend succeeded and a command is set
postprocess_runs(dl_result, command) == dl_result = RD_SUCCESS /\ command

\* whether save_stream leaves a file behind: a complete one on SUCCESS, a
\* partial one on INCOMPLETE, possibly a partial one on FAILED, none when
\* the backend process could not be started
save_stream_writes(res) ==
    CASE res \in {RD_SUCCESS, RD_INCOMPLETE} -> {TRUE}
      [] res = RD_FAILED -> {TRUE, FALSE}
      [] OTHER -> {FALSE}

\* a loop that never returns early
after_attempt_no_return(retry) == "try"

\* try_all_streams after an attempt: the next candidate, or return
after_attempt(retry) == IF retry THEN "try" ELSE "ret"

NoCall == [outputfile |-> NoPath, selected |-> <<>>, k |-> 1,
           subtitlefiles |-> <<>>, dl_result |-> "none", wrote |-> FALSE]

----------------------------------------------------------------------------
(* The inputs the specifications draw from. *)

Stream(id, be) == [id |-> id, valid |-> TRUE, be |-> be, err |-> <<>>]

BadStream(id) ==
    [id |-> id, valid |-> FALSE, be |-> "", err |-> <<"unsupported">>]

Flavor(id, height, bitrate, hard_subtitle, ss) ==
    [id |-> id, height |-> height, bitrate |-> bitrate,
     hard_subtitle |-> hard_subtitle, streams |-> ss]

Subtitle(url, lang) == [url |-> url, lang |-> lang]

Clip(title, flavors, subtitles) ==
    [title |-> title, flavors |-> flavors, subtitles |-> subtitles]

\* a failed clip whose flavor holds a stream that can be downloaded
FailedClip_with_valid_stream ==
    Clip("", <<Flavor(1, Null, Null, "", <<Stream(1, "wget")>>)>>, <<>>)

\* FailedClip.__init__: one FailedFlavor, whose only stream is invalid and
\* carries the error message; no title, no subtitles.
FailedClip == Clip("", <<Flavor(1, Null, Null, "", <<BadStream(1)>>)>>, <<>>)

\* two flavors; the better one is served by two different backends
ClipTwoBackends ==
    Clip("clip",
         <<Flavor(1, 360, 600, "", <<Stream(1, "rtmpdump")>>),
           Flavor(2, 720, 1500, "",
                  <<Stream(1, "ffmpeg"), Stream(2, "wget")>>)>>,
         <<Subtitle("http://s/fin", "fin")>>)

\* one flavor holding two streams bound to the same backend
ClipSameBackend ==
    Clip("clip",
         <<Flavor(1, 720, 1500, "",
                  <<Stream(1, "ffmpeg"), Stream(2, "ffmpeg")>>)>>,
         <<>>)

ClipNoFlavors == Clip("empty", <<>>, <<>>)

\* the only stream needs a backend that is not enabled
ClipDisabledBackend ==
    Clip("other", <<Flavor(1, 720, 1500, "", <<Stream(1, "rtmpdump")>>)>>,
         <<>>)

\* an invalid stream beside a valid one
ClipMixed ==
    Clip("mixed",
         <<Flavor(1, 720, 1500, "", <<BadStream(1), Stream(2, "wget")>>)>>,
         <<>>)

ClipKinds == {FailedClip, ClipTwoBackends, ClipSameBackend, ClipNoFlavors,
              ClipDisabledBackend, ClipMixed}

Filters(maxheight, maxbitrate, hardsubs, sublang, enabled_backends) ==
    [maxheight |-> maxheight, maxbitrate |-> maxbitrate,
     hardsubs |-> hardsubs, sublang |-> sublang,
     enabled_backends |-> enabled_backends]

\* the filters of the batch runs: no caps, every sidecar subtitle
BatchFilters == {Filters(Null, Null, "", "all", <<"wget", "ffmpeg">>)}

IOConfig(outputfilename, destdir, resume) ==
    [outputfilename |-> outputfilename, destdir |-> destdir,
     resume |-> resume]

OutTemplate == [stem |-> "out", dotted |-> FALSE, n |-> 0, ext |-> ".mkv"]

BatchIO == {IOConfig(NoPath, "", FALSE), IOConfig(OutTemplate, "", FALSE)}

\* files that may exist before the run
OldFiles == {[stem |-> "clip", dotted |-> FALSE, n |-> 0, ext |-> ".mp4"]}

\* the candidate lists given directly to try_all_streams
StreamKinds ==
    {Stream(1, "ffmpeg"), Stream(2, "wget"), Stream(3, ""), BadStream(4)}

SeqsUpTo(S, n) == UNION {[1..k -> S] : k \in 0..n}

----------------------------------------------------------------------------
(* The state machine. *)

\* the clip being processed
CurClip == clips[ci]

\* the candidate being tried
CurStream == streams[si]

Quiet ==
    /\ ci = 1
    /\ si = 1
    /\ latest_result = try_all_streams_default
    /\ output_file = NoPath
    /\ overall_status = RD_SUCCESS
    /\ cur = NoCall
    /\ remove_failed = FALSE
    /\ calls = <<>>
    /\ clip_log = <<>>
    /\ fetches = <<>>
    /\ hooks = <<>>
    /\ selected = <<>>

\* A batch run: download_clips or pipe is called on a batch of clips, in a
\* directory that holds none of the files the run will name.
Init ==
    /\ python3 = TRUE
    /\ mode \in {"download", "pipe"}
    /\ clips \in SeqsUpTo(ClipKinds, MaxClips)
    /\ filters \in BatchFilters
    /\ io \in BatchIO
    /\ postprocess_command \in BOOLEAN
    /\ fs = {}
    /\ pc = "start"
    /\ streams = <<>>
    /\ Quiet

\* process, up to the loop over the clips
ProcessStart ==
    /\ pc = "start"
    /\ pc' = IF clips = <<>> THEN "done" ELSE "clip"
    /\ overall_status' = RD_SUCCESS
    /\ ci' = 1
    /\ UNCHANGED <<python3, mode, clips, filters, io, postprocess_command,
                   streams, si, latest_result, output_file, cur, fs,
                   remove_failed, calls, clip_log, fetches, hooks, selected>>

\* process, one clip: select_streams and the two branches that end the clip
\* at once, or the entry of try_all_streams
ProcessClip ==
    /\ pc = "clip"
    /\ ci <= Len(clips)
    /\ IF select_flavor_raises(CurClip.flavors, filters, python3)
       THEN /\ pc' = "raised"
            /\ UNCHANGED <<ci, streams, si, latest_result, output_file,
                           overall_status, calls, clip_log>>
       ELSE LET ss == select_streams(CurClip.flavors, filters)
            IN  /\ streams' = ss
                /\ calls' = <<>>
                /\ IF process_branch(ss) = "try"
                   THEN /\ latest_result' = try_all_streams_default
                        /\ output_file' = NoPath
                        /\ si' = 1
                        /\ pc' = "try"
                        /\ UNCHANGED <<ci, overall_status, clip_log>>
                   ELSE /\ overall_status' =
                               process_status_unusable(overall_status)
                        /\ clip_log' = Append(clip_log,
                               [branch |-> process_branch(ss),
                                res |-> RD_FAILED, ncalls |-> 0,
                                candidates |-> ss,
                                status |-> overall_status'])
                        /\ ci' = ci + 1
                        /\ pc' = "clip"
                        /\ UNCHANGED <<si, latest_result, output_file>>
    /\ fetches' = <<>>
    /\ hooks' = <<>>
    /\ UNCHANGED <<python3, mode, clips, filters, io, postprocess_command,
                   cur, fs, remove_failed, selected>>

\* try_all_streams, the head of the loop: the end of the list, an invalid
\* stream that is passed over, or the cleanup before the next attempt
TryHead ==
    /\ pc = "try"
    /\ IF si > Len(streams)
       THEN /\ pc' = "ret"
            /\ UNCHANGED <<si, output_file, fs, remove_failed>>
       ELSE IF ~CurStream.valid
       THEN /\ si' = si + 1
            /\ pc' = "try"
            /\ UNCHANGED <<output_file, fs, remove_failed>>
       ELSE \E oserror \in BOOLEAN :
            /\ fs' = retry_cleanup(fs, output_file, oserror)
            /\ remove_failed' = (output_file # NoPath /\ output_file \in fs
                                 /\ oserror)
            /\ output_file' = NoPath
            /\ pc' = "call"
            /\ UNCHANGED si
    /\ cur' = NoCall
    /\ UNCHANGED <<python3, mode, clips, filters, io, postprocess_command,
                   ci, streams, latest_result, overall_status, calls,
                   clip_log, fetches, hooks, selected>>

\* streamfunc returned a bare result code: unpacking it raises TypeError
BareReturn ==
    /\ pc' = "raised"
    /\ calls' = Append(calls, [idx |-> si, be |-> CurStream.be,
                               res |-> "TypeError", file |-> NoPath,
                               wrote |-> FALSE])
    /\ UNCHANGED <<cur, fs, fetches, hooks>>

\* download, up to the subtitles: the downloader, the output name and
\* the selection of the subtitles
DownloadBegin ==
    /\ pc = "call"
    /\ mode = "download"
    /\ IF ~has_downloader(CurStream)
       THEN BareReturn
       ELSE /\ cur' = [outputfile |->
                           output_name_for_clip(CurClip,
                               Downloaders[CurStream.be], io, fs),
                       selected |->
                           subtitle_select(CurClip.subtitles, filters),
                       k |-> 1,
                       subtitlefiles |-> <<>>,
                       dl_result |-> "pending",
                       wrote |-> FALSE]
            /\ pc' = "subs"
            /\ UNCHANGED <<calls, fs, fetches, hooks>>
    /\ UNCHANGED <<python3, mode, clips, filters, io, postprocess_command,
                   ci, streams, si, latest_result, output_file,
                   overall_status, remove_failed, clip_log, selected>>

\* SubtitleDownloader.download, one subtitle of the loop
DownloadSubtitle ==
    /\ pc = "subs"
    /\ cur.k <= Len(cur.selected)
    /\ LET filename == subtitle_filename(cur.outputfile, cur.selected[cur.k])
       IN  IF isfile(filename, fs)
           THEN /\ cur' = [cur EXCEPT !.k = @ + 1]
                /\ pc' = "subs"
                /\ UNCHANGED <<fs, fetches>>
           ELSE \E outcome \in FetchOutcomes :
                /\ fetches' = Append(fetches,
                       [file |-> filename, call |-> Len(calls) + 1,
                        backend |-> cur.dl_result,
                        saved |-> outcome = "saved",
                        present |-> outcome # "failed"])
                /\ fs' = IF outcome = "failed" THEN fs
                         ELSE fs \cup {filename}
                /\ cur' = [cur EXCEPT
                              !.k = @ + 1,
                              !.subtitlefiles =
                                  IF outcome = "saved"
                                  THEN Append(@, filename) ELSE @]
                /\ pc' = after_fetch(outcome # "saved")
    /\ UNCHANGED <<python3, mode, clips, filters, io, postprocess_command,
                   ci, streams, si, latest_result, output_file,
                   overall_status, remove_failed, calls, clip_log, hooks,
                   selected>>

\* download, the rest: save_stream, then the hook when it succeeded
DownloadSave ==
    /\ pc = "subs"
    /\ cur.k > Len(cur.selected)
    /\ \E res \in ResultCodes : \E wrote \in save_stream_writes(res) :
        /\ fs' = IF wrote THEN fs \cup {cur.outputfile} ELSE fs
        /\ cur' = [cur EXCEPT !.dl_result = res, !.wrote = wrote]
        /\ hooks' = IF postprocess_runs(res, postprocess_command)
                    THEN Append(hooks, [dl_result |-> res,
                                        args |-> <<cur.outputfile>> \o
                                                 cur.subtitlefiles])
                    ELSE hooks
    /\ pc' = "unpack"
    /\ UNCHANGED <<python3, mode, clips, filters, io, postprocess_command,
                   ci, streams, si, latest_result, output_file,
                   overall_status, remove_failed, calls, clip_log, fetches,
                   selected>>

\* pipe_clip
PipeClip ==
    /\ pc = "call"
    /\ mode = "pipe"
    /\ IF ~has_downloader(CurStream)
       THEN BareReturn
       ELSE /\ \E res \in ResultCodes :
                cur' = [outputfile |-> NoPath,
                        selected |->
                            subtitle_select(CurClip.subtitles, filters),
                        k |-> 1,
                        subtitlefiles |-> <<>>,
                        dl_result |-> res,
                        wrote |-> FALSE]
            /\ pc' = "unpack"
            /\ UNCHANGED <<calls, fs, fetches, hooks>>
    /\ UNCHANGED <<python3, mode, clips, filters, io, postprocess_command,
                   ci, streams, si, latest_result, output_file,
                   overall_status, remove_failed, clip_log, selected>>

\* try_all_streams, after streamfunc returned a pair: needs_retry decides
TryUnpack ==
    /\ pc = "unpack"
    /\ latest_result' = cur.dl_result
    /\ output_file' = cur.outputfile
    /\ calls' = Append(calls, [idx |-> si, be |-> CurStream.be,
                               res |-> cur.dl_result,
                               file |-> cur.outputfile,
                               wrote |-> cur.wrote])
    /\ pc' = after_attempt(needs_retry(mode, cur.dl_result))
    /\ si' = IF pc' = "try" THEN si + 1 ELSE si
    /\ UNCHANGED <<python3, mode, clips, filters, io, postprocess_command,
                   ci, streams, overall_status, cur, fs, remove_failed,
                   clip_log, fetches, hooks, selected>>

\* process, after try_all_streams returned
ProcessTried ==
    /\ pc = "ret"
    /\ overall_status' = process_status_tried(overall_status, latest_result)
    /\ clip_log' = Append(clip_log, [branch |-> "try", res |-> latest_result,
                                     ncalls |-> Len(calls),
                                     candidates |-> streams,
                                     status |-> overall_status'])
    /\ ci' = ci + 1
    /\ pc' = "clip"
    \* the frame of try_all_streams is gone
    /\ si' = 1
    /\ latest_result' = try_all_streams_default
    /\ output_file' = NoPath
    /\ cur' = NoCall
    /\ remove_failed' = FALSE
    /\ calls' = <<>>
    /\ fetches' = <<>>
    /\ hooks' = <<>>
    /\ UNCHANGED <<python3, mode, clips, filters, io, postprocess_command,
                   streams, fs, selected>>

\* process, after the last clip
ProcessReturn ==
    /\ pc = "clip"
    /\ ci > Len(clips)
    /\ pc' = "done"
    /\ UNCHANGED <<python3, mode, clips, filters, io, postprocess_command,
                   ci, streams, si, latest_result, output_file,
                   overall_status, cur, fs, remove_failed, calls, clip_log,
                   fetches, hooks, selected>>

Attempt == DownloadBegin \/ DownloadSubtitle \/ DownloadSave \/ PipeClip

Next ==
    \/ ProcessStart
    \/ ProcessClip
    \/ TryHead
    \/ Attempt
    \/ TryUnpack
    \/ ProcessTried
    \/ ProcessReturn

Spec == Init /\ [][Next]_vars

----------------------------------------------------------------------------
(* try_all_streams called on its own, with any candidate list. *)

InitTry ==
    /\ python3 = TRUE
    /\ mode \in {"download", "pipe"}
    /\ clips = <<ClipTwoBackends>>
    /\ filters \in BatchFilters
    /\ io \in BatchIO
    /\ postprocess_command \in BOOLEAN
    /\ fs \in SUBSET OldFiles
    /\ pc = "try"
    /\ streams \in SeqsUpTo(StreamKinds, MaxStreams)
    /\ Quiet

NextTry ==
    \/ TryHead
    \/ DownloadBegin
    \/ DownloadSubtitle
    \/ DownloadSave
    \/ PipeClip
    \/ TryUnpack

SpecTry == InitTry /\ [][NextTry]_vars

----------------------------------------------------------------------------
(* select_flavor called on its own, with any flavor list and filters. *)

FlavorHeights == {Null, 360, 720}

FlavorBitrates == {Null, 600, 1500}

FlavorHardSubs == {"", "fi", "swe"}

\* a flavor list: the id of a flavor is its position in the list
FlavorLists ==
    UNION {
      {[i \in 1..k |-> Flavor(i, h[i], b[i], hs[i], <<>>)] :
         h \in [1..k -> FlavorHeights], b \in [1..k -> FlavorBitrates],
         hs \in [1..k -> FlavorHardSubs]} :
      k \in 0..MaxFlavors}

SelectFilters ==
    {Filters(mh, mb, hs, "all", <<"wget", "ffmpeg">>) :
       mh \in {Null, 360, 500}, mb \in {Null, 500, 600},
       hs \in {"", "fin"}}

InitSelect ==
    /\ python3 \in BOOLEAN
    /\ mode = "download"
    /\ \E fl \in FlavorLists : clips = <<Clip("clip", fl, <<>>)>>
    /\ filters \in SelectFilters
    /\ io \in {IOConfig(NoPath, "", FALSE)}
    /\ postprocess_command = FALSE
    /\ fs = {}
    /\ pc = "select"
    /\ streams = <<>>
    /\ Quiet

\* select_flavor(clip.flavors, filters)
SelectFlavor ==
    /\ pc = "select"
    /\ IF select_flavor_raises(CurClip.flavors, filters, python3)
       THEN /\ pc' = "raised"
            /\ UNCHANGED selected
       ELSE /\ pc' = "selected"
            /\ selected' = select_flavor(CurClip.flavors, filters)
    /\ UNCHANGED <<python3, mode, clips, filters, io, postprocess_command,
                   ci, streams, si, latest_result, output_file,
                   overall_status, cur, fs, remove_failed, calls, clip_log,
                   fetches, hooks>>

NextSelect == SelectFlavor

SpecSelect == InitSelect /\ [][NextSelect]_vars

----------------------------------------------------------------------------
(* filter_by_backend called on its own, with any stream list and any       *)
(* priority list of distinct backend names.                                *)

\* what a stream of a flavor can be: valid with a downloader of one of the
\* backends, valid without a downloader, invalid without or with one
BackendStreamKinds(id) ==
    {Stream(id, be) : be \in BackendNames \cup {""}} \cup
    {BadStream(id), [BadStream(id) EXCEPT !.be = "wget"]}

\* a stream list: the id of a stream is its position in the list
BackendStreamLists ==
    UNION {{ss \in [1..k -> UNION {BackendStreamKinds(i) : i \in 1..k}] :
              \A i \in 1..k : ss[i].id = i} :
           k \in 0..MaxStreams}

\* the priority lists: no backend is named twice
EnabledBackendLists ==
    {bs \in SeqsUpTo(BackendNames, Cardinality(BackendNames)) :
       \A i, j \in 1..Len(bs) : bs[i] = bs[j] => i = j}

InitBackend ==
    /\ python3 = TRUE
    /\ mode = "download"
    /\ \E ss \in BackendStreamLists :
         clips = <<Clip("clip", <<Flavor(1, Null, Null, "", ss)>>, <<>>)>>
    /\ \E bs \in EnabledBackendLists :
         filters = Filters(Null, Null, "", "all", bs)
    /\ io \in {IOConfig(NoPath, "", FALSE)}
    /\ postprocess_command = FALSE
    /\ fs = {}
    /\ pc = "backend"
    /\ streams = <<>>
    /\ Quiet

\* filter_by_backend(flavor.streams, filters.enabled_backends)
FilterByBackend ==
    /\ pc = "backend"
    /\ pc' = "filtered"
    /\ streams' = filter_by_backend(CurClip.flavors[1].streams,
                                    filters.enabled_backends)
    /\ UNCHANGED <<python3, mode, clips, filters, io, postprocess_command,
                   ci, si, latest_result, output_file, overall_status, cur,
                   fs, remove_failed, calls, clip_log, fetches, hooks,
                   selected>>

NextBackend == FilterByBackend

SpecBackend == InitBackend /\ [][NextBackend]_vars

----------------------------------------------------------------------------
(* download tried on two streams of one backend, for a clip with any       *)
(* subtitle list and any subtitle setting: SubtitleDownloader.select and   *)
(* SubtitleDownloader.download are called once in each attempt.            *)

SubtitleLangs == {"fin", "fi", "swe"}

SubtitleUrls == <<"http://s/1", "http://s/2", "http://s/3", "http://s/4">>

\* the subtitle lists an extractor builds: every subtitle has a URL, here
\* one that tells its position
SubtitleLists ==
    UNION {{[i \in 1..k |-> Subtitle(SubtitleUrls[i], lang[i])] :
              lang \in [1..k -> SubtitleLangs]} :
           k \in 0..MaxSubtitles}

SubtitleFilters ==
    {Filters(Null, Null, hs, sl, <<"wget", "ffmpeg">>) :
       hs \in {"", "fin"}, sl \in {"all", "fin", "sv", "none"}}

InitSubs ==
    /\ python3 = TRUE
    /\ mode = "download"
    /\ \E subs \in SubtitleLists :
         clips = <<Clip("clip",
                        <<Flavor(1, 720, 1500, "",
                                 <<Stream(1, "wget"), Stream(2, "wget")>>)>>,
                        subs)>>
    /\ filters \in SubtitleFilters
    /\ io \in {IOConfig(NoPath, "", FALSE)}
    /\ postprocess_command \in BOOLEAN
    /\ fs = {}
    /\ pc = "try"
    /\ streams = <<Stream(1, "wget"), Stream(2, "wget")>>
    /\ Quiet

NextSubs ==
    \/ TryHead
    \/ DownloadBegin
    \/ DownloadSubtitle
    \/ DownloadSave
    \/ TryUnpack

SpecSubs == InitSubs /\ [][NextSubs]_vars

----------------------------------------------------------------------------
(* output_name_for_clip called on its own: any title, any template, a      *)
(* destination directory or none, resume or not, each backend, and a disk  *)
(* that holds any of the proposed name and its first numbered variants.    *)

NameTitles == {"clip", "", "a/b"}

\* templates: without extension, with the extension of ffmpeg, with another
\* extension, and without extension below a directory "./"
NameTemplates ==
    {[stem |-> "out", dotted |-> FALSE, n |-> 0, ext |-> ""],
     OutTemplate,
     [stem |-> "out", dotted |-> FALSE, n |-> 0, ext |-> ".avi"],
     [stem |-> "./out", dotted |-> TRUE, n |-> 0, ext |-> ""]}

NameIO ==
    {IOConfig(tpl, destdir, resume) :
       tpl \in {NoPath} \cup NameTemplates, destdir \in {"", "dir"},
       resume \in BOOLEAN}

\* the name the resolver proposes before it looks at the disk
ProposedName(clip, be, ioc) ==
    output_name_for_clip(clip, Downloaders[be], ioc, {})

InitName ==
    /\ python3 = TRUE
    /\ mode = "download"
    /\ \E title \in NameTitles : clips = <<Clip(title, <<>>, <<>>)>>
    /\ filters \in BatchFilters
    /\ io \in NameIO
    /\ postprocess_command = FALSE
    /\ \E be \in BackendNames : streams = <<Stream(1, be)>>
    /\ fs \in SUBSET {[ProposedName(clips[1], streams[1].be, io)
                          EXCEPT !.n = k] : k \in 0..(MaxSuffix - 1)}
    /\ pc = "name"
    /\ Quiet

\* output_name_for_clip(clip, downloader, io)
ResolveName ==
    /\ pc = "name"
    /\ pc' = "named"
    /\ output_file' = output_name_for_clip(CurClip, Downloaders[CurStream.be],
                                           io, fs)
    /\ UNCHANGED <<python3, mode, clips, filters, io, postprocess_command,
                   ci, streams, si, latest_result, overall_status, cur, fs,
                   remove_failed, calls, clip_log, fetches, hooks, selected>>

NextName == ResolveName

SpecName == InitName /\ [][NextName]_vars

----------------------------------------------------------------------------
(* ClipExtractor.extract called on its own.  In this specification cur     *)
(* holds the call and what the collaborators answer: the extractor class,  *)
(* the answer to the page download of get_playlist, for each clip URL of   *)
(* the page the answers to the program data requests of the extractor (of  *)
(* the two merged extractors, for a MergingExtractor), and latest_only.    *)
(* clips receives the list extract returns.                                *)

\* the Python list [] where a clip is expected
EmptyList == [items |-> <<>>]

\* what extract_clip of an AreenaExtractor returns for an answer
areena_extract_clip(answer) ==
    IF answer = "data" THEN ClipSameBackend ELSE FailedClip

\* MergingExtractor.extract_clip, on the clips of its extractors
merging_extract_clip(results) ==
    LET kept == SelectSeq(results, LAMBDA c: c # FailedClip)
        RECURSIVE chain(_)
        chain(k) == IF k > Len(kept) THEN <<>>
                    ELSE kept[k].flavors \o chain(k + 1)
    IN  IF kept # <<>> THEN [kept[1] EXCEPT !.flavors = chain(1)]
        ELSE EmptyList

extract_clip(extractor, answers) ==
    IF extractor = "MergingExtractor"
    THEN merging_extract_clip([k \in 1..Len(answers) |->
                                  areena_extract_clip(answers[k])])
    ELSE areena_extract_clip(answers[1])

\* get_playlist: [none |-> TRUE] is None, else urls are the positions of
\* the clip URLs.  When the page could not be downloaded
\* YleUutisetExtractor returns None and ElavaArkistoExtractor an empty
\* list; the playlist of a MergingExtractor for live TV does not depend on
\* a page.
get_playlist(extractor, page, n) ==
    IF page = "failed" /\ extractor # "MergingExtractor"
    THEN [none |-> extractor = "YleUutisetExtractor", urls |-> <<>>]
    ELSE [none |-> FALSE, urls |-> [k \in 1..n |-> k]]

\* TRUE when extract ends in a TypeError: None is sliced or iterated
extract_raises(extractor, page, n) == get_playlist(extractor, page, n).none

extract(extractor, page, answers, latest_only) ==
    LET playlist == get_playlist(extractor, page, Len(answers)).urls
        wanted == IF latest_only
                  THEN SubSeq(playlist, 1, IF playlist = <<>> THEN 0 ELSE 1)
                  ELSE playlist
    IN  [k \in 1..Len(wanted) |-> extract_clip(extractor, answers[wanted[k]])]

ExtractorClasses == {"ElavaArkistoExtractor", "YleUutisetExtractor",
                     "MergingExtractor"}

ExtractCalls ==
    {[extractor |-> e, page |-> p, answers |-> a, latest_only |-> l] :
       e \in ExtractorClasses, p \in {"ok", "failed"},
       a \in SeqsUpTo({<<x, y>> : x, y \in {"data", "none"}}, MaxClips),
       l \in BOOLEAN}

InitExtract ==
    /\ python3 = TRUE
    /\ mode = "download"
    /\ clips = <<>>
    /\ filters \in BatchFilters
    /\ io \in {IOConfig(NoPath, "", FALSE)}
    /\ postprocess_command = FALSE
    /\ fs = {}
    /\ pc = "extract"
    /\ streams = <<>>
    /\ ci = 1
    /\ si = 1
    /\ latest_result = try_all_streams_default
    /\ output_file = NoPath
    /\ overall_status = RD_SUCCESS
    /\ cur \in ExtractCalls
    /\ remove_failed = FALSE
    /\ calls = <<>>
    /\ clip_log = <<>>
    /\ fetches = <<>>
    /\ hooks = <<>>
    /\ selected = <<>>

\* extractor.extract(url, latest_only)
Extract ==
    /\ pc = "extract"
    /\ IF extract_raises(cur.extractor, cur.page, Len(cur.answers))
       THEN /\ pc' = "raised"
            /\ UNCHANGED clips
       ELSE /\ pc' = "extracted"
            /\ clips' = extract(cur.extractor, cur.page, cur.answers,
                                cur.latest_only)
    /\ UNCHANGED <<python3, mode, filters, io, postprocess_command, ci,
                   streams, si, latest_result, output_file, overall_status,
                   cur, fs, remove_failed, calls, clip_log, fetches, hooks,
                   selected>>

NextExtract == Extract

SpecExtract == InitExtract /\ [][NextExtract]_vars

----------------------------------------------------------------------------
(* process on one clip whose flavor holds any stream list: what            *)
(* filter_by_backend hands to try_all_streams, in both run shapes.         *)

InitClip ==
    /\ python3 = TRUE
    /\ mode \in {"download", "pipe"}
    /\ \E ss \in BackendStreamLists :
         clips = <<Clip("clip", <<Flavor(1, 720, 1500, "", ss)>>, <<>>)>>
    /\ filters \in BatchFilters
    /\ io \in {IOConfig(NoPath, "", FALSE)}
    /\ postprocess_command = FALSE
    /\ fs = {}
    /\ pc = "start"
    /\ streams = <<>>
    /\ Quiet

NextClip ==
    \/ ProcessStart
    \/ ProcessClip
    \/ TryHead
    \/ DownloadBegin
    \/ DownloadSave
    \/ PipeClip
    \/ TryUnpack
    \/ ProcessTried
    \/ ProcessReturn

SpecClip == InitClip /\ [][NextClip]_vars

----------------------------------------------------------------------------
(* try_all_streams in a directory that already holds the template target   *)
(* and the title-derived name: what the cleanup between attempts removes.  *)

\* the files on the disk before the run starts
OldOutputs == OldFiles \cup {OutTemplate}

CleanupStreamKinds == {Stream(1, "ffmpeg"), Stream(2, "wget")}

CleanupIO == BatchIO \cup {IOConfig(NoPath, "", TRUE)}

InitCleanup ==
    /\ python3 = TRUE
    /\ mode = "download"
    /\ clips = <<Clip("clip", <<Flavor(1, 720, 1500, "", <<>>)>>, <<>>)>>
    /\ filters \in BatchFilters
    /\ io \in CleanupIO
    /\ postprocess_command = FALSE
    /\ fs = OldOutputs
    /\ pc = "try"
    /\ streams \in SeqsUpTo(CleanupStreamKinds, MaxStreams)
    /\ Quiet

NextCleanup ==
    \/ TryHead
    \/ DownloadBegin
    \/ DownloadSave
    \/ TryUnpack

SpecCleanup == InitCleanup /\ [][NextCleanup]_vars

----------------------------------------------------------------------------
(* The claims. *)

\* the positions of the valid candidates, in list order
ValidIdx ==
    SelectSeq([i \in 1..Len(streams) |-> i], LAMBDA i: streams[i].valid)

\* an attempt_fn call is being made
InAttempt == pc \in {"call", "subs", "unpack"}

LastCall == calls[Len(calls)]

\* a valid candidate follows the last one called
MoreCandidates ==
    \E i \in 1..Len(streams) : i > LastCall.idx /\ streams[i].valid

\* C1: the attempt_fn calls of try_all_streams are the valid candidates in
\* list order, each at most once, never more than len(candidates), and no
\* call follows a result that needs_retry rejects.
C1_CallsArePrefixOfValid ==
    /\ Len(calls) <= Len(streams)
    /\ Len(calls) <= Len(ValidIdx)
    /\ \A k \in 1..Len(calls) : calls[k].idx = ValidIdx[k]
    /\ \A k \in 1..(Len(calls) - 1) : needs_retry(mode, calls[k].res)
    /\ InAttempt =>
         /\ \A k \in 1..Len(calls) : needs_retry(mode, calls[k].res)
         /\ Len(calls) < Len(ValidIdx)
         /\ si = ValidIdx[Len(calls) + 1]

\* a SUCCESS in the middle of the list ended the loop with a valid candidate
\* left untried
C1_Witness ==
    /\ pc = "ret"
    /\ Len(calls) = 2
    /\ calls[2].res = RD_SUCCESS
    /\ Len(ValidIdx) > 2

\* C2: try_all_streams returns the result of the last attempt_fn call it
\* made, and FAILED when it made none.
C2_ReturnsLastResult ==
    pc = "ret" =>
        latest_result = IF calls = <<>> THEN RD_FAILED ELSE LastCall.res

\* every candidate was tried and needed a retry: the last result is returned
C2_Witness ==
    /\ pc = "ret"
    /\ Len(calls) = 2
    /\ needs_retry(mode, calls[1].res)
    /\ needs_retry(mode, calls[2].res)
    /\ calls[1].res # calls[2].res
    /\ latest_result = calls[2].res

\* C3: a save-to-file run moves on to the next candidate for every result
\* but SUCCESS and INCOMPLETE; a pipe run moves on only for
\* SUBPROCESS_EXECUTE_FAILED, so FAILED or INCOMPLETE ends the clip there.
C3_RetryPredicates ==
    /\ \A k \in 1..(Len(calls) - 1) :
         IF mode = "download"
         THEN calls[k].res \notin {RD_SUCCESS, RD_INCOMPLETE}
         ELSE calls[k].res = RD_SUBPROCESS_EXECUTE_FAILED
    /\ (pc = "ret" /\ calls # <<>> /\ MoreCandidates) =>
         IF mode = "download"
         THEN LastCall.res \in {RD_SUCCESS, RD_INCOMPLETE}
         ELSE LastCall.res \in {RD_SUCCESS, RD_INCOMPLETE, RD_FAILED}

\* a pipe run ended on FAILED or INCOMPLETE with a candidate left untried
C3_Witness ==
    /\ mode = "pipe"
    /\ pc = "ret"
    /\ calls # <<>>
    /\ LastCall.res \in {RD_FAILED, RD_INCOMPLETE}
    /\ MoreCandidates

\* C4: once the aggregate status is FAILED it stays FAILED for the rest of
\* the batch.
C4_FailedIsSticky ==
    [][overall_status = RD_FAILED => overall_status' = RD_FAILED]_vars

\* a clip that ended otherwise came after a clip that ended FAILED
C4_Witness ==
    /\ overall_status = RD_FAILED
    /\ \E i, j \in 1..Len(clip_log) :
         /\ i < j
         /\ clip_log[i].res = RD_FAILED
         /\ clip_log[j].branch = "try"
         /\ clip_log[j].res \in {RD_INCOMPLETE, RD_SUBPROCESS_EXECUTE_FAILED}

\* SUCCESS best, FAILED worst
Severity(res) ==
    CASE res = RD_SUCCESS -> 0
      [] res = RD_INCOMPLETE -> 1
      [] res = RD_SUBPROCESS_EXECUTE_FAILED -> 2
      [] res = RD_FAILED -> 3

\* C5: for a non-empty batch the aggregate status process ends with is the
\* worst of the per-clip results.
C5_AggregateIsWorst ==
    (pc = "done" /\ clips # <<>>) =>
        /\ \E i \in 1..Len(clip_log) : clip_log[i].res = overall_status
        /\ \A i \in 1..Len(clip_log) :
             Severity(clip_log[i].res) <= Severity(overall_status)

\* the candidate list process obtained for clip i
Candidates(i) == clip_log[i].candidates

\* the candidate list is empty or holds only invalid streams
Unusable(ss) == \A k \in 1..Len(ss) : ~ss[k].valid

\* C6: a clip whose candidate list is empty or holds only invalid streams
\* contributes FAILED to the aggregate with zero attempt_fn calls, and every
\* later clip of the batch is still processed: its streams are tried when
\* some are valid, whatever the earlier clips' results were.
C6_UnusableClipFailsAlone ==
    /\ pc # "raised"
    /\ Len(clip_log) <= Len(clips)
    /\ pc = "done" => Len(clip_log) = Len(clips)
    /\ \A i \in 1..Len(clip_log) :
         IF Unusable(Candidates(i))
         THEN /\ clip_log[i].ncalls = 0
              /\ clip_log[i].status = RD_FAILED
              /\ overall_status = RD_FAILED
         ELSE clip_log[i].ncalls >= 1

\* a clip without usable streams, then a clip whose stream was attempted
C6_Witness ==
    /\ pc = "done"
    /\ Len(clips) >= 2
    /\ Unusable(Candidates(1))
    /\ Candidates(1) # <<>>
    /\ clip_log[2].ncalls >= 1
    /\ clip_log[2].res = RD_SUCCESS

\* C7: an attempt after the first starts only after the output file of the
\* previous attempt has been removed, unless its removal failed; a failed
\* removal does not end the loop, the next attempt is still made.
C7_CleanupBeforeRetry ==
    /\ (pc = "call" /\ calls # <<>> /\ LastCall.file # NoPath) =>
         (LastCall.file \in fs => remove_failed)
    /\ (remove_failed /\ ~InAttempt) => Len(calls) >= 2

\* the previous attempt left a file, and it is gone when the next one starts
C7_Witness ==
    /\ pc = "call"
    /\ calls # <<>>
    /\ LastCall.wrote
    /\ LastCall.file \notin fs
    /\ ~remove_failed

\* C8, as stated: an attempt whose backend result is not SUCCESS has
\* written no subtitle file.
C8_SubtitlesOnlyAfterSuccess ==
    (mode = "download" /\ pc = "unpack" /\ cur.dl_result # RD_SUCCESS) =>
        cur.subtitlefiles = <<>>

\* C8, amended: the subtitles are fetched before the backend is run,
\* whatever it then returns; only the post-process hook waits for SUCCESS.
C8_SubtitlesBeforeBackend ==
    /\ \A i \in 1..Len(fetches) : fetches[i].backend = "pending"
    /\ \A i \in 1..Len(hooks) : hooks[i].dl_result = RD_SUCCESS
    /\ (mode = "download" /\ pc = "unpack") =>
         \A k \in 1..Len(cur.selected) :
            \/ subtitle_filename(cur.outputfile, cur.selected[k]) \in fs
            \/ \E i \in 1..Len(fetches) :
                 /\ fetches[i].file =
                        subtitle_filename(cur.outputfile, cur.selected[k])
                 /\ ~fetches[i].saved

\* a subtitle file was written in an attempt whose backend then FAILED
C8_Witness ==
    /\ mode = "download"
    /\ pc = "unpack"
    /\ cur.dl_result = RD_FAILED
    /\ cur.subtitlefiles # <<>>
    /\ hooks = <<>>

\* C9: after an attempt returned SUBPROCESS_EXECUTE_FAILED, no further
\* attempt of the clip uses a stream bound to the same backend.
C9_FailedBackendNotRetried ==
    \A k, l \in 1..Len(calls) :
        (k < l /\ calls[k].res = RD_SUBPROCESS_EXECUTE_FAILED) =>
            calls[l].be # calls[k].be

\* the flavor list select_flavor was called with
GivenFlavors == clips[1].flavors

\* C10, as stated: with a height cap H, if some flavor has height <= H
\* then the flavor returned does not have height > H.
C10_HeightCapHolds ==
    (/\ pc = "selected"
     /\ filters.maxheight # Null
     /\ selected # <<>>
     /\ \E i \in 1..Len(GivenFlavors) :
          /\ GivenFlavors[i].height # Null
          /\ GivenFlavors[i].height <= filters.maxheight)
    => selected[1].height <= filters.maxheight

\* the flavor is left in by the hard-subtitle setting
HardSubtitleOk(fl) ==
    IF filters.hardsubs = "" THEN fl.hard_subtitle = ""
    ELSE /\ fl.hard_subtitle # ""
         /\ normalize_language_code(fl.hard_subtitle) = filters.hardsubs

\* the flavor has a height and a bitrate within every cap that is set
WithinCaps(fl) ==
    /\ fl.height # Null
    /\ fl.height <= filters.maxheight
    /\ filters.maxbitrate # Null =>
         (fl.bitrate # Null /\ fl.bitrate <= filters.maxbitrate)

\* C10, amended: with a height cap H, if some flavor passes the
\* hard-subtitle filter and satisfies every cap that is set, then a flavor
\* is returned and its height is not above H.
C10_HeightCapAmongAcceptable ==
    (/\ pc = "selected"
     /\ filters.maxheight # Null
     /\ \E i \in 1..Len(GivenFlavors) :
          HardSubtitleOk(GivenFlavors[i]) /\ WithinCaps(GivenFlavors[i]))
    => (selected # <<>> /\ selected[1].height <= filters.maxheight)

\* 720p at 1500 kbps and 360p at 600 kbps under a height cap of 500: the
\* 360p flavor is returned
C10_Witness ==
    /\ pc = "selected"
    /\ filters.maxheight = 500
    /\ Len(GivenFlavors) = 2
    /\ GivenFlavors[1].height = 720 /\ GivenFlavors[1].bitrate = 1500
    /\ GivenFlavors[2].height = 360 /\ GivenFlavors[2].bitrate = 600
    /\ selected = <<GivenFlavors[2]>>

\* the positions of the flavors the hard-subtitle setting leaves in
HardOkIdx == {i \in 1..Len(GivenFlavors) : HardSubtitleOk(GivenFlavors[i])}

\* C11, as stated, read in favour of the claim over the flavors the
\* hard-subtitle filter leaves in: when there is such a flavor and each has
\* a bitrate above the bitrate cap, the flavor returned has the maximum
\* bitrate of them.
C11_FallbackPicksMaxBitrate ==
    (/\ pc = "selected"
     /\ filters.maxbitrate # Null
     /\ HardOkIdx # {}
     /\ \A i \in HardOkIdx :
          /\ GivenFlavors[i].bitrate # Null
          /\ GivenFlavors[i].bitrate > filters.maxbitrate)
    => /\ selected # <<>>
       /\ \A i \in HardOkIdx :
            GivenFlavors[i].bitrate <= selected[1].bitrate

\* C11, amended: when some flavor passes the hard-subtitle filter and every
\* flavor that passes it has a bitrate above the bitrate cap, the flavor
\* returned passes the hard-subtitle filter and has the minimum bitrate of
\* the flavors that pass it.
C11_FallbackPicksMinBitrate ==
    (/\ pc = "selected"
     /\ filters.maxbitrate # Null
     /\ HardOkIdx # {}
     /\ \A i \in HardOkIdx :
          /\ GivenFlavors[i].bitrate # Null
          /\ GivenFlavors[i].bitrate > filters.maxbitrate)
    => /\ selected # <<>>
       /\ \E i \in HardOkIdx : selected[1] = GivenFlavors[i]
       /\ \A i \in HardOkIdx :
            selected[1].bitrate <= GivenFlavors[i].bitrate

\* 600 kbps and 1500 kbps under a bitrate cap of 500: the 600 kbps flavor is
\* returned
C11_Witness ==
    /\ pc = "selected"
    /\ filters.maxbitrate = 500
    /\ filters.hardsubs = ""
    /\ Len(GivenFlavors) = 2
    /\ GivenFlavors[1].bitrate = 600 /\ GivenFlavors[1].hard_subtitle = ""
    /\ GivenFlavors[2].bitrate = 1500 /\ GivenFlavors[2].hard_subtitle = ""
    /\ selected = <<GivenFlavors[1]>>

\* C12, as stated: a flavor is returned whenever the list is not empty.
C12_NonEmptyGivesFlavor ==
    pc = "selected" => (selected = <<>> <=> GivenFlavors = <<>>)

\* C12, amended: a flavor is returned exactly when some flavor of the list
\* passes the hard-subtitle filter, whatever the caps are.
C12_HardOkGivesFlavor ==
    pc = "selected" => (selected = <<>> <=> HardOkIdx = {})

\* a flavor above both caps is the only one without a hard subtitle, and is
\* returned
C12_Witness ==
    /\ pc = "selected"
    /\ filters.maxheight = 360 /\ filters.maxbitrate = 500
    /\ filters.hardsubs = ""
    /\ Len(GivenFlavors) = 2
    /\ GivenFlavors[1].hard_subtitle = "swe"
    /\ GivenFlavors[2].hard_subtitle = ""
    /\ GivenFlavors[2].height = 720 /\ GivenFlavors[2].bitrate = 1500
    /\ selected = <<GivenFlavors[2]>>

\* C13: a flavor that is returned has a hard subtitle of the language asked
\* for when hardsubs is set and no hard subtitle when it is not set.
C13_HardSubtitleAsRequested ==
    (pc = "selected" /\ selected # <<>>) =>
        IF filters.hardsubs # ""
        THEN /\ selected[1].hard_subtitle # ""
             /\ normalize_language_code(selected[1].hard_subtitle)
                  = filters.hardsubs
        ELSE selected[1].hard_subtitle = ""

\* the fallback branch with hardsubs "fin": of a Swedish and a Finnish
\* hard-subtitled flavor, both above the bitrate cap, the Finnish one ("fi")
\* is returned although its bitrate is the higher one
C13_Witness ==
    /\ pc = "selected"
    /\ filters.hardsubs = "fin"
    /\ filters.maxbitrate = 500
    /\ Len(GivenFlavors) = 2
    /\ GivenFlavors[1].hard_subtitle = "swe" /\ GivenFlavors[1].bitrate = 600
    /\ GivenFlavors[2].hard_subtitle = "fi" /\ GivenFlavors[2].bitrate = 1500
    /\ selected = <<GivenFlavors[2]>>

\* only a height cap is set
OnlyHeightCap == filters.maxheight # Null /\ filters.maxbitrate = Null

\* the flavor is within the caps that are set; a missing height or bitrate
\* passes (Python 2's order, the only one under which it is compared and
\* select_flavor returns)
PassesCaps(fl) ==
    /\ filters.maxbitrate # Null =>
         (fl.bitrate = Null \/ fl.bitrate <= filters.maxbitrate)
    /\ filters.maxheight # Null =>
         (fl.height = Null \/ fl.height <= filters.maxheight)

\* the positions of the flavors that pass both filters
AcceptableIdx == {i \in HardOkIdx : PassesCaps(GivenFlavors[i])}

\* C14, as stated, read in favour of the claim over the flavors that pass
\* both filters: with only a height cap and such a flavor, the flavor
\* returned passes both, none that passes both is higher, and none of the
\* same height that passes both has a higher bitrate.
C14_HeightCapPrefersHighBitrate ==
    (pc = "selected" /\ OnlyHeightCap /\ AcceptableIdx # {})
    => /\ selected # <<>>
       /\ \E i \in AcceptableIdx : selected[1] = GivenFlavors[i]
       /\ \A i \in AcceptableIdx :
            /\ OrZero(GivenFlavors[i].height) <= OrZero(selected[1].height)
            /\ OrZero(GivenFlavors[i].height) = OrZero(selected[1].height) =>
                 OrZero(GivenFlavors[i].bitrate)
                   <= OrZero(selected[1].bitrate)

\* C14, amended: with only a height cap and some flavor passing both
\* filters, the flavor returned passes both, none that passes both is
\* higher, and none of the same height that passes both has a lower bitrate.
C14_HeightCapPrefersLowBitrate ==
    (pc = "selected" /\ OnlyHeightCap /\ AcceptableIdx # {})
    => /\ selected # <<>>
       /\ \E i \in AcceptableIdx : selected[1] = GivenFlavors[i]
       /\ \A i \in AcceptableIdx :
            /\ OrZero(GivenFlavors[i].height) <= OrZero(selected[1].height)
            /\ OrZero(GivenFlavors[i].height) = OrZero(selected[1].height) =>
                 OrZero(selected[1].bitrate)
                   <= OrZero(GivenFlavors[i].bitrate)

\* two 360p flavors, 600 kbps and 1500 kbps, under a height cap of 500 only:
\* the 600 kbps flavor is returned
C14_Witness ==
    /\ pc = "selected"
    /\ filters.maxheight = 500 /\ filters.maxbitrate = Null
    /\ filters.hardsubs = ""
    /\ Len(GivenFlavors) = 2
    /\ GivenFlavors[1].height = 360 /\ GivenFlavors[1].bitrate = 600
    /\ GivenFlavors[2].height = 360 /\ GivenFlavors[2].bitrate = 1500
    /\ GivenFlavors[1].hard_subtitle = ""
    /\ GivenFlavors[2].hard_subtitle = ""
    /\ selected = <<GivenFlavors[1]>>

\* C15: with a bitrate cap or no cap at all, and some flavor passing the
\* hard-subtitle filter and the caps, the flavor returned passes both and is
\* the best of those that do: by (height, bitrate) under both caps, by
\* bitrate otherwise, a missing value counting as 0.
C15_BestWithinCaps ==
    (/\ pc = "selected"
     /\ ~OnlyHeightCap
     /\ AcceptableIdx # {})
    => /\ selected # <<>>
       /\ \E i \in AcceptableIdx : selected[1] = GivenFlavors[i]
       /\ \A i \in AcceptableIdx :
            IF filters.maxheight # Null
            THEN \/ OrZero(GivenFlavors[i].height)
                      < OrZero(selected[1].height)
                 \/ /\ OrZero(GivenFlavors[i].height)
                         = OrZero(selected[1].height)
                    /\ OrZero(GivenFlavors[i].bitrate)
                         <= OrZero(selected[1].bitrate)
            ELSE OrZero(GivenFlavors[i].bitrate)
                   <= OrZero(selected[1].bitrate)

\* both caps: 360p at 600 kbps is returned, a flavor of 1500 kbps is above
\* the bitrate cap
C15_Witness ==
    /\ pc = "selected"
    /\ filters.maxheight = 500 /\ filters.maxbitrate = 600
    /\ filters.hardsubs = ""
    /\ Len(GivenFlavors) = 2
    /\ GivenFlavors[1].height = 360 /\ GivenFlavors[1].bitrate = 600
    /\ GivenFlavors[1].hard_subtitle = ""
    /\ GivenFlavors[2].height = 360 /\ GivenFlavors[2].bitrate = 1500
    /\ GivenFlavors[2].hard_subtitle = ""
    /\ selected = <<GivenFlavors[1]>>

\* the stream list filter_by_backend was called with
GivenStreams == clips[1].flavors[1].streams

\* the place of a backend in the priority list, 0 when it is not enabled
Priority(be) ==
    IF \E k \in 1..Len(filters.enabled_backends) :
           filters.enabled_backends[k] = be
    THEN CHOOSE k \in 1..Len(filters.enabled_backends) :
             filters.enabled_backends[k] = be
    ELSE 0

\* the positions of the input streams that are valid and bound to an
\* enabled backend
UsableIdx ==
    {i \in 1..Len(GivenStreams) :
       GivenStreams[i].valid /\ Priority(GivenStreams[i].be) > 0}

\* C16: when some input stream is valid and bound to an enabled backend,
\* the result holds exactly those input streams, each once, a stream of a
\* backend of higher priority before one of lower priority and two streams
\* of one backend in their input order.
C16_EnabledStreamsInPriorityOrder ==
    (pc = "filtered" /\ UsableIdx # {}) =>
        /\ Len(streams) = Cardinality(UsableIdx)
        /\ \A i \in UsableIdx :
             \E j \in 1..Len(streams) : streams[j] = GivenStreams[i]
        /\ \A j \in 1..Len(streams) :
             \E i \in UsableIdx : streams[j] = GivenStreams[i]
        /\ \A j, l \in 1..Len(streams) :
             j < l =>
               \/ Priority(streams[j].be) < Priority(streams[l].be)
               \/ /\ streams[j].be = streams[l].be
                  /\ streams[j].id < streams[l].id

\* ffmpeg, wget, ffmpeg streams under the priority wget, ffmpeg: the wget
\* stream comes first, the ffmpeg streams follow in input order
C16_Witness ==
    /\ pc = "filtered"
    /\ filters.enabled_backends = <<"wget", "ffmpeg">>
    /\ GivenStreams =
         <<Stream(1, "ffmpeg"), Stream(2, "wget"), Stream(3, "ffmpeg")>>
    /\ streams =
         <<Stream(2, "wget"), Stream(1, "ffmpeg"), Stream(3, "ffmpeg")>>

\* the positions of the invalid input streams
InvalidIdx == {i \in 1..Len(GivenStreams) : ~GivenStreams[i].valid}

\* the backends of the input streams that are valid and have a downloader
SupportedBackends ==
    {GivenStreams[i].be : i \in {k \in 1..Len(GivenStreams) :
                                   /\ GivenStreams[k].valid
                                   /\ GivenStreams[k].be # ""}}

\* C17: when no input stream is valid and bound to an enabled backend, the
\* result is the first invalid input stream alone if there is one;
\* otherwise, for a non-empty input, one invalid stream that is none of the
\* input streams and whose message names exactly the backends of the input
\* streams; it is empty exactly when the input is empty.
C17_NoEnabledStreamGivesOneInvalid ==
    (pc = "filtered" /\ UsableIdx = {}) =>
        /\ streams = <<>> <=> GivenStreams = <<>>
        /\ InvalidIdx # {} =>
             /\ Len(streams) = 1
             /\ \E i \in InvalidIdx :
                  /\ streams[1] = GivenStreams[i]
                  /\ \A k \in InvalidIdx : i <= k
        /\ (InvalidIdx = {} /\ GivenStreams # <<>>) =>
             /\ Len(streams) = 1
             /\ ~streams[1].valid
             /\ \A i \in 1..Len(GivenStreams) : streams[1] # GivenStreams[i]
             /\ {streams[1].err[k] : k \in 2..Len(streams[1].err)}
                  = SupportedBackends

\* a wget stream and an ffmpeg stream while only rtmpdump is enabled: the
\* message names wget and ffmpeg
C17_Witness ==
    /\ pc = "filtered"
    /\ filters.enabled_backends = <<"rtmpdump">>
    /\ GivenStreams = <<Stream(1, "wget"), Stream(2, "ffmpeg")>>
    /\ Len(streams) = 1
    /\ ~streams[1].valid
    /\ streams[1].err =
         <<"Required backend not enabled. Try: --backend", "wget", "ffmpeg">>

\* the subtitle list of the clip SubtitleDownloader.select was called with
GivenSubtitles == clips[1].subtitles

\* the positions of the subtitles whose language is the one of a rule that
\* is a language code, both normalized
MatchingIdx ==
    {i \in 1..Len(GivenSubtitles) :
       normalize_language_code(GivenSubtitles[i].lang)
         = normalize_language_code(filters.sublang)}

\* C18: the subtitles select returned are none when hard subtitles are
\* requested; otherwise the whole list when the rule is "all", and else the
\* first subtitle of a matching language alone, or none when none matches.
C18_SelectedSubtitles ==
    (mode = "download" /\ pc = "subs") =>
        IF filters.hardsubs # "" THEN cur.selected = <<>>
        ELSE IF filters.sublang = "all" THEN cur.selected = GivenSubtitles
        ELSE IF MatchingIdx = {} THEN cur.selected = <<>>
        ELSE \E i \in MatchingIdx :
               /\ \A k \in MatchingIdx : i <= k
               /\ cur.selected = <<GivenSubtitles[i]>>

\* two Finnish subtitles ("fi" and "fin") under the rule "fin": the first
\* one alone is selected
C18_Witness ==
    /\ mode = "download"
    /\ pc = "subs"
    /\ filters.hardsubs = "" /\ filters.sublang = "fin"
    /\ Len(GivenSubtitles) = 2
    /\ GivenSubtitles[1].lang = "fi"
    /\ GivenSubtitles[2].lang = "fin"
    /\ cur.selected = <<GivenSubtitles[1]>>

\* SubtitleDownloader.download has returned for the second time, and both
\* calls had the same subtitles and the same base output path
SecondDownloadReturned ==
    /\ mode = "download"
    /\ pc = "unpack"
    /\ Len(calls) = 1
    /\ calls[1].res # "TypeError"
    /\ splitext_base(calls[1].file) = splitext_base(cur.outputfile)

\* C19, as stated: of two calls with the same subtitles and the same base
\* output path the second one makes no fetch and returns no path.
C19_SecondCallFetchesNothing ==
    SecondDownloadReturned =>
        /\ \A i \in 1..Len(fetches) : fetches[i].call = 1
        /\ cur.subtitlefiles = <<>>

\* C19, amended: a target that a fetch left on the disk, saved or not, is
\* not fetched again, neither later in the call nor by the next call; the
\* second of two calls with the same subtitles and the same base output
\* path fetches only targets of which every earlier fetch failed and left
\* no file, and returns only paths it saved itself.
C19_PresentTargetNotFetchedAgain ==
    /\ \A i, j \in 1..Len(fetches) :
         (i < j /\ fetches[i].file = fetches[j].file) =>
             (~fetches[i].present /\ ~fetches[i].saved)
    /\ SecondDownloadReturned =>
         \A j \in 1..Len(cur.subtitlefiles) :
            \E i \in 1..Len(fetches) :
               /\ fetches[i].call = 2
               /\ fetches[i].saved
               /\ fetches[i].file = cur.subtitlefiles[j]

\* the first call saved the Finnish and the Swedish subtitle, the second
\* call found both and fetched nothing
C19_Witness ==
    /\ SecondDownloadReturned
    /\ Len(cur.selected) = 2
    /\ cur.selected[1].lang = "fin" /\ cur.selected[2].lang = "swe"
    /\ Len(fetches) = 2
    /\ fetches[1].call = 1 /\ fetches[1].saved
    /\ fetches[2].call = 1 /\ fetches[2].saved
    /\ cur.subtitlefiles = <<>>

\* the fetches of the call of download that is under way or has returned
FetchesOfCall == {i \in 1..Len(fetches) : fetches[i].call = Len(calls) + 1}

\* C20: the IOError of a fetch ends neither the loop nor the attempt: when
\* download comes back, every selected subtitle was fetched in this call or
\* its target is there, the paths returned are those of the fetches that
\* were saved, in their order, and save_stream has been run.
C20_SubtitleFailureAbsorbed ==
    /\ pc # "raised"
    /\ (mode = "download" /\ pc = "unpack") =>
         /\ cur.dl_result \in ResultCodes
         /\ \A k \in 1..Len(cur.selected) :
              LET target == subtitle_filename(cur.outputfile, cur.selected[k])
              IN  \/ target \in fs
                  \/ \E i \in FetchesOfCall : fetches[i].file = target
         /\ Len(cur.subtitlefiles)
              = Cardinality({i \in FetchesOfCall : fetches[i].saved})
         /\ \A j \in 1..Len(cur.subtitlefiles) :
              \E i \in FetchesOfCall :
                 /\ fetches[i].saved
                 /\ fetches[i].file = cur.subtitlefiles[j]
         /\ \A i \in FetchesOfCall :
              ~fetches[i].saved =>
                 \/ \A j \in 1..Len(cur.subtitlefiles) :
                      cur.subtitlefiles[j] # fetches[i].file
                 \/ \E l \in FetchesOfCall :
                      /\ l > i
                      /\ fetches[l].saved
                      /\ fetches[l].file = fetches[i].file

\* the fetch of the Finnish subtitle failed, the Swedish one was fetched and
\* saved after it, and the backend then ran to SUCCESS
C20_Witness ==
    /\ mode = "download"
    /\ pc = "unpack"
    /\ calls = <<>>
    /\ Len(cur.selected) = 2
    /\ cur.selected[1].lang = "fin" /\ cur.selected[2].lang = "swe"
    /\ Len(fetches) = 2
    /\ ~fetches[1].saved /\ ~fetches[1].present
    /\ fetches[2].saved
    /\ cur.subtitlefiles = <<fetches[2].file>>
    /\ cur.dl_result = RD_SUCCESS

\* the downloader the name is resolved for
NameDownloader == Downloaders[streams[1].be]

\* resume was asked for and the backend can resume
Resuming == io.resume /\ NameDownloader.resume

\* C21: a title-derived name has the extension of the backend; when not
\* resuming it is the first of base+ext, base-1+ext, base-2+ext, ... that is
\* not on the disk; when resuming it is base+ext, on the disk or not.
C21_TitleNameFirstFree ==
    (pc = "named" /\ io.outputfilename = NoPath) =>
        /\ output_file.ext = NameDownloader.file_extension
        /\ IF Resuming THEN output_file.n = 0
           ELSE /\ output_file \notin fs
                /\ \A k \in 0..(output_file.n - 1) :
                     [output_file EXCEPT !.n = k] \in fs

\* clip.mp4 and clip-1.mp4 exist, no resume: the name is clip-2.mp4
C21_Witness ==
    /\ pc = "named"
    /\ io.outputfilename = NoPath
    /\ ~io.resume
    /\ Cardinality(fs) = 2
    /\ output_file = [stem |-> "clip", dotted |-> FALSE, n |-> 2,
                      ext |-> ".mp4"]

\* C22: a name resolved without resuming, from the title or from a
\* template, is not the name of a file on the disk.
C22_ResolvedNameIsFree ==
    (pc = "named" /\ ~Resuming) => output_file \notin fs

\* C23: with a template, a mandatory extension is the extension of the
\* result, the rest of the template kept; an extension that is not
\* mandatory is appended when the template's file name has none, and the
\* template is returned as it is otherwise.
C23_TemplateExtension ==
    (pc = "named" /\ io.outputfilename # NoPath) =>
        IF NameDownloader.is_mandatory
        THEN output_file = [io.outputfilename EXCEPT
                               !.ext = NameDownloader.file_extension]
        ELSE IF io.outputfilename.ext = ""
        THEN output_file = [io.outputfilename EXCEPT
                               !.ext = NameDownloader.file_extension]
        ELSE output_file = io.outputfilename

\* the positions of the FailedClips that process has finished
FailedDone == {i \in 1..Len(clip_log) : clips[i] = FailedClip}

C25_ExtractReturnsClips ==
    (pc \in {"extracted", "raised"}) =>
        /\ pc = "extracted"
        /\ \A i \in 1..Len(clips) : "flavors" \in DOMAIN clips[i]

\* empty, or one invalid stream, or only valid streams with a downloader
NeverMixed(ss) ==
    \/ ss = <<>>
    \/ Len(ss) = 1 /\ ~ss[1].valid
    \/ \A k \in 1..Len(ss) : ss[k].valid /\ has_downloader(ss[k])

\* C26: the candidate list process works on is never mixed; the stream of
\* an attempt is valid and has a downloader, no attempt ends in the bare
\* result code whose unpacking raises, and no call was made on an invalid
\* stream.
C26_CandidatesNeverMixed ==
    /\ NeverMixed(streams)
    /\ pc # "raised"
    /\ pc \in {"call", "subs", "unpack"} =>
         (CurStream.valid /\ has_downloader(CurStream))
    /\ \A k \in 1..Len(calls) :
         /\ calls[k].be # ""
         /\ calls[k].res # "TypeError"
         /\ streams[calls[k].idx].valid

\* the flavor holds an invalid stream, a valid stream without downloader
\* and a wget stream: the wget stream alone is handed on and attempted
C26_Witness ==
    /\ pc = "unpack"
    /\ Len(clips[1].flavors) = 1
    /\ Len(clips[1].flavors[1].streams) = 3
    /\ ~clips[1].flavors[1].streams[1].valid
    /\ clips[1].flavors[1].streams[2] = Stream(2, "")
    /\ clips[1].flavors[1].streams[3] = Stream(3, "wget")
    /\ streams = <<Stream(3, "wget")>>
    /\ si = 1

\* the subtitle files a fetch of this run saved whole
SavedSubtitleFiles ==
    {fetches[j].file : j \in {i \in 1..Len(fetches) : fetches[i].saved}}

\* the sidecar files of the selected subtitles that were saved beside the
\* output path of the attempt, by this attempt or by an earlier one
SidecarsBesideOutput ==
    {f \in {subtitle_filename(cur.outputfile, cur.selected[k]) :
              k \in 1..Len(cur.selected)} : f \in SavedSubtitleFiles /\ f \in fs}

\* C27: the hook runs only for an attempt that returned SUCCESS, and after
\* a successful save with a command configured it received the output path
\* followed by every saved sidecar subtitle that is on disk beside it.
C27_HookGetsEverySidecar ==
    /\ \A i \in 1..Len(hooks) : hooks[i].dl_result = RD_SUCCESS
    /\ (pc = "unpack" /\ cur.dl_result = RD_SUCCESS /\ postprocess_command) =>
         /\ hooks # <<>>
         /\ LET args == hooks[Len(hooks)].args
            IN  /\ args[1] = cur.outputfile
                /\ {args[i] : i \in 2..Len(args)} = SidecarsBesideOutput

\* C28: whatever the attempts return, every file that was at an output
\* path before the run started is still on the disk.
C28_OldOutputsKept == OldOutputs \subseteq fs

\* C28 read for the files no attempt of the run wrote to: the cleanup
\* removes only a file that an attempt of the run has written
C28_CleanupRemovesOwnFiles ==
    [][\A f \in fs \ fs' :
         \E k \in 1..Len(calls) : calls[k].file = f /\ calls[k].wrote]_vars

NoCaps == filters.maxheight = Null /\ filters.maxbitrate = Null

\* the flavors that survive the hard-subtitle filter
HardPass == apply_hard_subtitle_filter(CurClip.flavors, filters)

\* select_flavor with the direction of the fallback sort turned around
select_flavor_fallback_reversed(flavors, f) ==
    IF flavors = <<>> THEN <<>>
    ELSE LET hard == apply_hard_subtitle_filter(flavors, f)
             within == SelectSeq(hard, LAMBDA fl: CapPass(fl, f))
             filtered ==
                 IF within # <<>> THEN apply_resolution_filters(hard, f)
                 ELSE sorted(hard, "sort_max_bitrate",
                             ~(f.maxheight # Null \/ f.maxbitrate # Null))
         IN  IF filtered # <<>> THEN <<filtered[Len(filtered)]>> ELSE <<>>

\* C29: with no cap set the cap filter passes every flavor that survived
\* the hard-subtitle filter, so the fallback sort is applied to the empty
\* list only, and select_flavor returns what it would return with the
\* fallback sorting the other way round.
C29_NoCapFallbackDirectionIrrelevant ==
    (pc = "selected" /\ NoCaps) =>
        /\ SelectSeq(HardPass, LAMBDA fl: CapPass(fl, filters)) = HardPass
        /\ selected = select_flavor_fallback_reversed(CurClip.flavors, filters)

\* no cap, two flavors of unknown height and different bitrates: the one
\* with the higher bitrate is returned
C29_Witness ==
    /\ pc = "selected"
    /\ NoCaps
    /\ Len(HardPass) = 2
    /\ HardPass[1].height = Null
    /\ HardPass[2].height = Null
    /\ HardPass[1].bitrate = 1500
    /\ HardPass[2].bitrate = 600
    /\ selected = <<HardPass[1]>>

====
